---------------------------- MODULE Spec2Model ----------------------------
(***************************************************************************)
(* Model of the Figma API playground client (src/frontend/src/App.js):     *)
(* the request builder state, executeRequest, parseHeaders, the history    *)
(* and saved-request calls, and the backend operations they talk to.       *)
(*                                                                         *)
(* Texts (token, endpoint, header text, body text) are sequences of        *)
(* one-character strings, so that includes(':'), split, trim and           *)
(* JSON.parse are computed character by character as the code does.        *)
(***************************************************************************)
EXTENDS Naturals, Integers, Sequences, FiniteSets, TLC

(***************************************************************************)
(* Bounds of the model.                                                    *)
(***************************************************************************)
\* header texts of every length up to MaxHdrLen over SmallChars are tried
MaxHdrLen == 3
\* entries the history store may hold: executeRequest is cut off there
MaxHistory == 2
\* toggleFavorite invocations per saved request
MaxToggles == 2
\* records the saved-request store may hold: saveRequest is cut off there
MaxSaved == 3
\* calls of one kind that may be in flight at once
MaxInFlight == 2

(***************************************************************************)
(* Text literals.                                                          *)
(***************************************************************************)
S_XFigmaToken == <<"X", "-", "F", "i", "g", "m", "a", "-", "T", "o", "k", "e", "n">>
S_ContentType == <<"C", "o", "n", "t", "e", "n", "t", "-", "T", "y", "p", "e">>
S_AppJson == <<"a", "p", "p", "l", "i", "c", "a", "t", "i", "o", "n", "/", "j", "s", "o", "n">>
S_Tok == <<"t", "o", "k">>
S_Evil == <<"e", "v", "i", "l">>
E_Placeholder == <<"/", "f", "i", "l", "e", "s", "/", ":", "f", "i", "l", "e", "_", "k", "e", "y">>
E_File == <<"/", "f", "i", "l", "e", "s", "/", "A", "B", "C", "1", "2", "3">>
E_NodesIds == <<"/", "f", "i", "l", "e", "s", "/", "K", "E", "Y", "/", "n", "o", "d", "e", "s", "?", "i", "d", "s", "=", "1", ":", "2">>
H_Example == <<"X", "-", "F", "o", "o", ":", " ", "b", "a", "r", "\n", "b", "a", "d", "l", "i", "n", "e", "\n", "Y", "-", "B", "a", "z", ":", "q", "u", "x">>
H_ColonValue == <<"H", "o", "s", "t", ":", " ", "a", ":", "b">>
H_BlankKey == <<" ", ":", " ", "x">>
H_BlankValue == <<"X", ":", " ", " ">>
H_JsonObject == <<"{", "\"", "A", "\"", ":", " ", "\"", "b", "\"", "}">>
H_JsonToken == <<"{", "\"", "X", "-", "F", "i", "g", "m", "a", "-", "T", "o", "k", "e", "n", "\"", ":", " ", "\"", "e", "v", "i", "l", "\"", "}">>
H_LineToken == <<"X", "-", "F", "i", "g", "m", "a", "-", "T", "o", "k", "e", "n", ":", " ", "e", "v", "i", "l">>
H_JsonNumber == <<"1", "2">>
H_JsonString == <<"\"", "a", "b", "\"">>
H_JsonNull == <<"n", "u", "l", "l">>
H_JsonArray == <<"[", "\"", "a", "\"", "]">>
H_JsonNested == <<"{", "\"", "A", "\"", ":", " ", "1", ",", " ", "\"", "B", "\"", ":", " ", "{", "\"", "C", "\"", ":", " ", "n", "u", "l", "l", "}", "}">>
B_Json == <<"{", "\"", "m", "e", "s", "s", "a", "g", "e", "\"", ":", " ", "\"", "H", "e", "l", "l", "o", "\"", "}">>
B_Malformed == <<"{", "b", "a", "d">>

(***************************************************************************)
(* JavaScript values.  Every value is a record of one shape:               *)
(*   t  the type tag, n  a number or boolean, s  the characters of a       *)
(*   string, m  the own properties of an object or array, in insertion     *)
(*   order, as <<key, value>> pairs.                                       *)
(***************************************************************************)
JNull == [t |-> "null", n |-> 0, s |-> <<>>, m |-> <<>>]
JNum(k) == [t |-> "num", n |-> k, s |-> <<>>, m |-> <<>>]
JBool(b) == [t |-> "bool", n |-> IF b THEN 1 ELSE 0, s |-> <<>>, m |-> <<>>]
JStr(x) == [t |-> "str", n |-> 0, s |-> x, m |-> <<>>]
JObj(pairs) == [t |-> "obj", n |-> 0, s |-> <<>>, m |-> pairs]
JArr(pairs) == [t |-> "arr", n |-> 0, s |-> <<>>, m |-> pairs]

Digits == <<"0", "1", "2", "3", "4", "5", "6", "7", "8", "9">>
IsDigit(c) == \E d \in 1..10 : Digits[d] = c
DigitVal(c) == (CHOOSE d \in 1..10 : Digits[d] = c) - 1

RECURSIVE DecStr(_)
\* the decimal numeral of n, the key of an array element or string index
DecStr(k) ==
  IF k < 10 THEN <<Digits[k + 1]>>
  ELSE DecStr(k \div 10) \o <<Digits[(k % 10) + 1]>>

\* obj[k] = v: an existing key keeps its place, a new key is added last
Put(pairs, k, v) ==
  IF \E i \in 1..Len(pairs) : pairs[i][1] = k
  THEN [i \in 1..Len(pairs) |-> IF pairs[i][1] = k THEN <<k, v>> ELSE pairs[i]]
  ELSE Append(pairs, <<k, v>>)

HasKey(pairs, k) == \E i \in 1..Len(pairs) : pairs[i][1] = k
Get(pairs, k) == pairs[CHOOSE i \in 1..Len(pairs) : pairs[i][1] = k][2]
Keys(pairs) == {pairs[i][1] : i \in 1..Len(pairs)}

(***************************************************************************)
(* JSON.parse, by recursive descent over the characters.  It covers        *)
(* whitespace, objects, arrays, strings, integers and the three literals;  *)
(* the texts of the model hold no backslash, no '.', and no digit          *)
(* followed by e or E, so escapes, fractions and exponents do not occur.   *)
(***************************************************************************)
IsWs(c) == c \in {" ", "\n", "\t", "\r"}

RECURSIVE SkipWs(_, _)
SkipWs(s, i) == IF i <= Len(s) /\ IsWs(s[i]) THEN SkipWs(s, i + 1) ELSE i

ParseFail == [ok |-> FALSE, val |-> JNull, next |-> 0]
ParseOk(v, k) == [ok |-> TRUE, val |-> v, next |-> k]

StartsWith(s, i, lit) ==
  /\ i + Len(lit) - 1 <= Len(s)
  /\ \A k \in 1..Len(lit) : s[i + k - 1] = lit[k]

RECURSIVE ParseString(_, _, _)
\* s[i-1] was the opening quote; acc holds the characters read so far
ParseString(s, i, acc) ==
  IF i > Len(s) THEN ParseFail
  ELSE IF s[i] = "\"" THEN ParseOk(JStr(acc), i + 1)
  ELSE IF s[i] \in {"\n", "\t", "\r"} THEN ParseFail
  ELSE ParseString(s, i + 1, Append(acc, s[i]))

RECURSIVE DigitsEnd(_, _)
DigitsEnd(s, i) == IF i <= Len(s) /\ IsDigit(s[i]) THEN DigitsEnd(s, i + 1) ELSE i

RECURSIVE DigitsValue(_, _, _)
DigitsValue(s, from, to) ==
  IF to < from THEN 0
  ELSE 10 * DigitsValue(s, from, to - 1) + DigitVal(s[to])

ParseNumber(s, i) ==
  LET neg == s[i] = "-"
      d0 == IF neg THEN i + 1 ELSE i
  IN IF d0 > Len(s) \/ ~IsDigit(s[d0]) THEN ParseFail
     ELSE LET e == IF s[d0] = "0" THEN d0 + 1 ELSE DigitsEnd(s, d0)
              v == DigitsValue(s, d0, e - 1)
          IN ParseOk(JNum(IF neg THEN 0 - v ELSE v), e)

RECURSIVE ParseValue(_, _), ParseMembers(_, _, _), ParseElements(_, _, _)

ParseValue(s, i0) ==
  LET i == SkipWs(s, i0)
  IN IF i > Len(s) THEN ParseFail
     ELSE IF s[i] = "{" THEN
       LET j == SkipWs(s, i + 1)
       IN IF j <= Len(s) /\ s[j] = "}" THEN ParseOk(JObj(<<>>), j + 1)
          ELSE ParseMembers(s, i + 1, <<>>)
     ELSE IF s[i] = "[" THEN
       LET j == SkipWs(s, i + 1)
       IN IF j <= Len(s) /\ s[j] = "]" THEN ParseOk(JArr(<<>>), j + 1)
          ELSE ParseElements(s, i + 1, <<>>)
     ELSE IF s[i] = "\"" THEN ParseString(s, i + 1, <<>>)
     ELSE IF s[i] = "-" \/ IsDigit(s[i]) THEN ParseNumber(s, i)
     ELSE IF StartsWith(s, i, <<"n", "u", "l", "l">>) THEN ParseOk(JNull, i + 4)
     ELSE IF StartsWith(s, i, <<"t", "r", "u", "e">>) THEN ParseOk(JBool(TRUE), i + 4)
     ELSE IF StartsWith(s, i, <<"f", "a", "l", "s", "e">>) THEN ParseOk(JBool(FALSE), i + 5)
     ELSE ParseFail

\* the members of an object from position i0 on, up to the closing brace
ParseMembers(s, i0, acc) ==
  LET i == SkipWs(s, i0)
  IN IF i > Len(s) \/ s[i] # "\"" THEN ParseFail
     ELSE LET k == ParseString(s, i + 1, <<>>)
          IN IF ~k.ok THEN ParseFail
             ELSE LET c == SkipWs(s, k.next)
                  IN IF c > Len(s) \/ s[c] # ":" THEN ParseFail
                     ELSE LET v == ParseValue(s, c + 1)
                          IN IF ~v.ok THEN ParseFail
                             ELSE LET e == SkipWs(s, v.next)
                                      acc2 == Put(acc, k.val.s, v.val)
                                  IN IF e > Len(s) THEN ParseFail
                                     ELSE IF s[e] = "}" THEN ParseOk(JObj(acc2), e + 1)
                                     ELSE IF s[e] = "," THEN ParseMembers(s, e + 1, acc2)
                                     ELSE ParseFail

\* the elements of an array from position i0 on, up to the closing bracket
ParseElements(s, i0, acc) ==
  LET v == ParseValue(s, i0)
  IN IF ~v.ok THEN ParseFail
     ELSE LET e == SkipWs(s, v.next)
              acc2 == Append(acc, <<DecStr(Len(acc)), v.val>>)
          IN IF e > Len(s) THEN ParseFail
             ELSE IF s[e] = "]" THEN ParseOk(JArr(acc2), e + 1)
             ELSE IF s[e] = "," THEN ParseElements(s, e + 1, acc2)
             ELSE ParseFail

\* JSON.parse(text): ok = FALSE stands for the SyntaxError it throws
JSONparse(s) ==
  LET r == ParseValue(s, 1)
  IN IF r.ok /\ SkipWs(s, r.next) > Len(s)
     THEN [ok |-> TRUE, val |-> r.val]
     ELSE [ok |-> FALSE, val |-> JNull]

(***************************************************************************)
(* String.prototype.split, trim and includes.                              *)
(***************************************************************************)
RECURSIVE SplitFrom(_, _, _, _)
\* the pieces of s from position i on; cur is the piece being read
SplitFrom(s, sep, i, cur) ==
  IF i > Len(s) THEN <<cur>>
  ELSE IF s[i] = sep THEN <<cur>> \o SplitFrom(s, sep, i + 1, <<>>)
  ELSE SplitFrom(s, sep, i + 1, Append(cur, s[i]))

split(s, sep) == SplitFrom(s, sep, 1, <<>>)

RECURSIVE TrimLeft(_)
TrimLeft(s) == IF s # <<>> /\ IsWs(Head(s)) THEN TrimLeft(Tail(s)) ELSE s

RECURSIVE TrimRight(_)
TrimRight(s) ==
  IF s # <<>> /\ IsWs(s[Len(s)]) THEN TrimRight(SubSeq(s, 1, Len(s) - 1)) ELSE s

trim(s) == TrimRight(TrimLeft(s))

includes(s, c) == \E i \in 1..Len(s) : s[i] = c

(***************************************************************************)
(* parseHeaders (App.js 146-160).                                          *)
(***************************************************************************)
\* the body of the forEach callback: one line added to headerObj
HeaderLine(headerObj, line) ==
  LET parts == split(line, ":")
      key == parts[1]
      hasValue == Len(parts) >= 2
  IN IF key # <<>> /\ hasValue /\ parts[2] # <<>>
     THEN Put(headerObj, trim(key), JStr(trim(parts[2])))
     ELSE headerObj

RECURSIVE HeaderLines(_, _)
HeaderLines(headerObj, lines) ==
  IF lines = <<>> THEN headerObj
  ELSE HeaderLines(HeaderLine(headerObj, Head(lines)), Tail(lines))

parseHeaders(h) ==
  IF h = <<>> THEN JObj(<<>>)
  ELSE LET p == JSONparse(h)
       IN IF p.ok THEN p.val
          ELSE JObj(HeaderLines(<<>>, split(h, "\n")))


(***************************************************************************)
(* JSON.stringify(value, null, 2), used by loadRequest (App.js 185).       *)
(***************************************************************************)
RECURSIVE Spaces(_)
Spaces(k) == IF k = 0 THEN <<>> ELSE <<" ">> \o Spaces(k - 1)

RECURSIVE Quote(_)
\* the characters of a string with '"' and '\' escaped
Quote(x) ==
  IF x = <<>> THEN <<>>
  ELSE (IF Head(x) \in {"\"", "\\"} THEN <<"\\", Head(x)>> ELSE <<Head(x)>>)
       \o Quote(Tail(x))

RECURSIVE Stringify(_, _), StringifyProps(_, _, _, _)

Stringify(v, indent) ==
  IF v.t = "null" THEN <<"n", "u", "l", "l">>
  ELSE IF v.t = "bool"
    THEN (IF v.n = 1 THEN <<"t", "r", "u", "e">> ELSE <<"f", "a", "l", "s", "e">>)
  ELSE IF v.t = "num"
    THEN (IF v.n < 0 THEN <<"-">> \o DecStr(0 - v.n) ELSE DecStr(v.n))
  ELSE IF v.t = "str" THEN <<"\"">> \o Quote(v.s) \o <<"\"">>
  ELSE IF v.m = <<>> THEN (IF v.t = "obj" THEN <<"{", "}">> ELSE <<"[", "]">>)
  ELSE (IF v.t = "obj" THEN <<"{">>  ELSE <<"[">>)
       \o StringifyProps(v.m, v.t = "obj", indent + 2, 1)
       \o <<"\n">> \o Spaces(indent)
       \o (IF v.t = "obj" THEN <<"}">>  ELSE <<"]">>)

\* the properties from the i-th on, each on a line of its own
StringifyProps(pairs, withKeys, indent, i) ==
  IF i > Len(pairs) THEN <<>>
  ELSE <<"\n">> \o Spaces(indent)
       \o (IF withKeys
           THEN <<"\"">> \o Quote(pairs[i][1]) \o <<"\"", ":", " ">>
           ELSE <<>>)
       \o Stringify(pairs[i][2], indent)
       \o (IF i < Len(pairs) THEN <<",">> ELSE <<>>)
       \o StringifyProps(pairs, withKeys, indent, i + 1)

(***************************************************************************)
(* Object spread  {...value}  (App.js 119): the own enumerable properties  *)
(* of an object or array, the indexed characters of a string, nothing for  *)
(* a number, a boolean or null.                                            *)
(***************************************************************************)
OwnProperties(v) ==
  IF v.t \in {"obj", "arr"} THEN v.m
  ELSE IF v.t = "str" THEN [i \in 1..Len(v.s) |-> <<DecStr(i - 1), JStr(<<v.s[i]>>)>>]
  ELSE <<>>

RECURSIVE SpreadInto(_, _)
SpreadInto(target, pairs) ==
  IF pairs = <<>> THEN target
  ELSE SpreadInto(Put(target, Head(pairs)[1], Head(pairs)[2]), Tail(pairs))


(***************************************************************************)
(* State.  Presentation-only state (activeTab, selectedCategory, toasts)   *)
(* is left out; history listings are kept by their length.                 *)
(***************************************************************************)
VARIABLES
  figmaToken,       \* useState('')      App.js 50
  showTokenDialog,  \* useState(false)   App.js 51
  method,           \* useState('GET')   App.js 52
  endpoint,         \* useState('')      App.js 53
  headers,          \* useState('')      App.js 54
  body,             \* useState('')      App.js 55
  response,         \* useState(null)    App.js 56
  loading,          \* useState(false)   App.js 57
  savedRequests,    \* useState([])      App.js 58
  history,          \* useState([])      App.js 59, by its length
  srvSaved,         \* backend: the saved-request store
  srvHistory,       \* backend: the history store, by its length
  execCall,         \* the axios.post of executeRequest in flight
  histCalls,        \* the axios.get calls of loadHistory in flight
  listCalls,        \* the axios.get calls of loadSavedRequests in flight
  favCalls,         \* the axios.put calls of toggleFavorite in flight
  saveCall,         \* the axios.post of saveRequest in flight
  lastExec,         \* history variable: how the last validated execution ended
  toggled,          \* history variable: per id, the toggleFavorite invocations
                    \* (clicks) and the updates the backend applied for them
  clearCalls,       \* the axios.delete calls of clearHistory in flight
  cleared           \* history variable: a clearHistory has completed successfully
                    \* and executeRequest has posted nothing since

vars == <<figmaToken, showTokenDialog, method, endpoint, headers, body, response,
          loading, savedRequests, history, srvSaved, srvHistory, execCall,
          histCalls, listCalls, favCalls, saveCall, lastExec, toggled,
          clearCalls, cleared>>

builderVars == <<figmaToken, showTokenDialog, method, endpoint, headers, body>>
savedVars == <<savedRequests, srvSaved, listCalls, favCalls, saveCall, toggled>>
execVars == <<response, loading, execCall, lastExec>>
historyVars == <<history, srvHistory, histCalls>>
clearVars == <<clearCalls, cleared>>

(***************************************************************************)
(* Inputs.                                                                 *)
(***************************************************************************)
Methods == {"GET", "POST", "PUT", "DELETE", "PAGE"}      \* App.js 325-329
Tokens == {<<>>, S_Tok}
Endpoints == {<<>>, E_Placeholder, E_File, E_NodesIds}
BuilderHeaderTexts == {<<>>, H_LineToken}
BodyTexts == {<<>>, B_Json, B_Malformed}

\* entries of the catalog FIGMA_ENDPOINTS (App.js 20-47): Get file, Get page only
Examples ==
  { [name |-> "Get file", endpoint |-> E_Placeholder, method |-> "GET"],
    [name |-> "Get page only", endpoint |-> E_Placeholder, method |-> "PAGE"] }

\* the saved requests the store holds when the page is opened
SeedSaved ==
  << [id |-> 1, name |-> "post comment", method |-> "POST", endpoint |-> E_File,
      headers |-> JObj(<< <<S_XFigmaToken, JStr(S_Evil)>> >>), body |-> B_Json,
      is_favorite |-> FALSE],
     [id |-> 2, name |-> "get file", method |-> "GET", endpoint |-> E_Placeholder,
      headers |-> JObj(<< <<S_XFigmaToken, JStr(S_Evil)>> >>), body |-> <<>>,
      is_favorite |-> TRUE] >>

SavedIds == {SeedSaved[i].id : i \in 1..Len(SeedSaved)}

RemoveAt(seq, i) == SubSeq(seq, 1, i - 1) \o SubSeq(seq, i + 1, Len(seq))

(***************************************************************************)
(* Results of a call and values of response.                               *)
(***************************************************************************)
NullResponse == [kind |-> "null", status_code |-> 0, data |-> "", message |-> ""]
EnvelopeResponse(sc, d) ==
  [kind |-> "envelope", status_code |-> sc, data |-> d, message |-> ""]
ErrorResponse(msg) == [kind |-> "error", status_code |-> 0, data |-> "", message |-> msg]

\* what the awaited axios promise settles to: res (ok) or the error thrown
NoOutcome == [ok |-> FALSE, data |-> NullResponse, detail |-> "", message |-> ""]
Resolved(d) == [ok |-> TRUE, data |-> d, detail |-> "", message |-> ""]
\* detail is error.response?.data?.detail, "" when there is none
Rejected(detail, msg) ==
  [ok |-> FALSE, data |-> NullResponse, detail |-> detail, message |-> msg]

SyntaxError == Rejected("", "Unexpected token in JSON")
NetworkError == Rejected("", "Network Error")
UpstreamFailure == Rejected("upstream unreachable", "Request failed with status code 500")

IdleCall == [stage |-> "idle", url |-> "", payload |-> <<>>, outcome |-> NoOutcome, appends |-> 0]
NoExec == [outcome |-> "none", posted |-> FALSE, appends |-> 0, error |-> NoOutcome]

\* the page right after it is opened: the mount effect (App.js 63-70) has read the
\* token and issued loadSavedRequests() and loadHistory()
MountInit ==
  /\ figmaToken \in Tokens          \* localStorage.getItem('figma_token'), App.js 64-67
  /\ showTokenDialog = FALSE
  /\ method = "GET"
  /\ endpoint = <<>>
  /\ headers = <<>>
  /\ body = <<>>
  /\ response = NullResponse
  /\ loading = FALSE
  /\ savedRequests = <<>>
  /\ history = 0
  /\ srvSaved = SeedSaved
  /\ srvHistory = 0
  /\ execCall = IdleCall
  /\ histCalls = <<[stage |-> "sent", data |-> 0]>>        \* loadHistory(), App.js 69
  /\ listCalls = <<[stage |-> "sent", data |-> <<>>]>>     \* loadSavedRequests(), App.js 68
  /\ favCalls = <<>>
  /\ saveCall = [stage |-> "idle", payload |-> <<>>]
  /\ lastExec = NoExec
  /\ toggled = [id \in SavedIds |-> [clicks |-> 0, applied |-> 0]]
  /\ clearCalls = <<>>
  /\ cleared = FALSE

\* the page once the two loads of the mount effect have settled
Init ==
  /\ figmaToken \in Tokens
  /\ showTokenDialog = FALSE
  /\ method = "GET"
  /\ endpoint = <<>>
  /\ headers = <<>>
  /\ body = <<>>
  /\ response = NullResponse
  /\ loading = FALSE
  /\ savedRequests = SeedSaved
  /\ history = 0
  /\ srvSaved = SeedSaved
  /\ srvHistory = 0
  /\ execCall = IdleCall
  /\ histCalls = <<>>
  /\ listCalls = <<>>
  /\ favCalls = <<>>
  /\ saveCall = [stage |-> "idle", payload |-> <<>>]
  /\ lastExec = NoExec
  /\ toggled = [id \in SavedIds |-> [clicks |-> 0, applied |-> 0]]
  /\ clearCalls = <<>>
  /\ cleared = FALSE

(***************************************************************************)
(* The request builder.                                                    *)
(***************************************************************************)
\* the method select, App.js 320
setMethod ==
  /\ \E m \in Methods : method' = m
  /\ UNCHANGED <<figmaToken, showTokenDialog, endpoint, headers, body>>
  /\ UNCHANGED <<execVars, historyVars, savedVars, clearVars>>

\* the endpoint input, App.js 334
setEndpoint ==
  /\ \E e \in Endpoints : endpoint' = e
  /\ UNCHANGED <<figmaToken, showTokenDialog, method, headers, body>>
  /\ UNCHANGED <<execVars, historyVars, savedVars, clearVars>>

\* the headers textarea, App.js 366
setHeaders ==
  /\ \E h \in BuilderHeaderTexts : headers' = h
  /\ UNCHANGED <<figmaToken, showTokenDialog, method, endpoint, body>>
  /\ UNCHANGED <<execVars, historyVars, savedVars, clearVars>>

\* the body textarea, rendered only while the method is POST or PUT, App.js 374-386
setBody ==
  /\ method \in {"POST", "PUT"}
  /\ \E b \in BodyTexts : body' = b
  /\ UNCHANGED <<figmaToken, showTokenDialog, method, endpoint, headers>>
  /\ UNCHANGED <<execVars, historyVars, savedVars, clearVars>>

\* App.js 219-224
loadExample ==
  /\ \E example \in Examples :
       /\ method' = example.method
       /\ endpoint' = example.endpoint
  /\ UNCHANGED <<figmaToken, showTokenDialog, headers, body>>
  /\ UNCHANGED <<execVars, historyVars, savedVars, clearVars>>

\* App.js 182-188
loadRequest ==
  /\ \E i \in 1..Len(savedRequests) :
       LET req == savedRequests[i]
       IN /\ method' = req.method
          /\ endpoint' = req.endpoint
          /\ headers' = Stringify(req.headers, 0)
          /\ body' = req.body       \* req.body || '' : the empty text stays empty
  /\ UNCHANGED <<figmaToken, showTokenDialog>>
  /\ UNCHANGED <<execVars, historyVars, savedVars, clearVars>>


(***************************************************************************)
(* executeRequest (App.js 96-144).                                         *)
(***************************************************************************)
\* mutant: the check for placeholder parameters is left out
ValidationError_NoPlaceholderCheck ==
  IF figmaToken = <<>> THEN "MissingCredential"
  ELSE IF endpoint = <<>> THEN "MissingEndpoint"
  ELSE "none"

\* the three early returns, App.js 97-112
ValidationError ==
  IF figmaToken = <<>> THEN "MissingCredential"
  ELSE IF endpoint = <<>> THEN "MissingEndpoint"
  ELSE IF includes(endpoint, ":") THEN "UnresolvedPlaceholder"
  ELSE "none"

\* App.js 116-120: the fixed headers first, the parsed header text spread last
requestHeaders ==
  JObj(SpreadInto(<< <<S_XFigmaToken, JStr(figmaToken)>>,
                     <<S_ContentType, JStr(S_AppJson)>> >>,
                  OwnProperties(parseHeaders(headers))))

\* App.js 123: "page" stands for `${API}/figma/page`, "proxy" for `${API}/figma/proxy`
apiEndpoint == IF method = "PAGE" THEN "page" ELSE "proxy"

\* mutant: the selected method is passed through
PostMethod_PassThrough == method

\* App.js 126
PostMethod == IF method = "PAGE" THEN "GET" ELSE method

\* App.js 129: body ? JSON.parse(body) : null
PostBody == IF body # <<>> THEN JSONparse(body) ELSE [ok |-> TRUE, val |-> JNull]

\* App.js 125-130: the second argument of axios.post
PostPayload ==
  [method |-> PostMethod, endpoint |-> endpoint, headers |-> requestHeaders,
   body |-> PostBody.val]

\* mutant: the detail of the error reply is ignored
CaughtResponse_MessageOnly(error) == ErrorResponse(error.message)

\* App.js 136-139: the response the catch block sets
CaughtResponse(error) ==
  ErrorResponse(IF error.detail # "" THEN error.detail ELSE error.message)

\* mutant: loading is not reset when the call has settled
FinallyLoading_Skipped == loading

\* App.js 141-143: the finally block
FinallyLoading == FALSE

\* the handler up to its await: validation, then the request is built and posted;
\* a body that does not parse throws before the post, into catch and finally
executeRequest ==
  /\ ~loading                                   \* disabled={loading}, App.js 345
  /\ srvHistory < MaxHistory
  /\ Len(histCalls) < MaxInFlight
  /\ IF ValidationError = "MissingCredential"
     THEN /\ showTokenDialog' = TRUE
          /\ UNCHANGED <<figmaToken, method, endpoint, headers, body, execVars>>
          /\ UNCHANGED cleared
     ELSE IF ValidationError # "none"
     THEN UNCHANGED <<builderVars, execVars, cleared>>
     ELSE IF ~PostBody.ok
     THEN /\ response' = CaughtResponse(SyntaxError)
          /\ loading' = FinallyLoading
          /\ lastExec' = [outcome |-> "failure", posted |-> FALSE, appends |-> 0,
                          error |-> SyntaxError]
          /\ UNCHANGED <<builderVars, execCall, cleared>>
     ELSE /\ loading' = TRUE
          /\ cleared' = FALSE
          /\ execCall' = [stage |-> "sent", url |-> apiEndpoint,
                          payload |-> <<PostPayload>>, outcome |-> NoOutcome,
                          appends |-> 0]
          /\ UNCHANGED <<builderVars, response, lastExec>>
  /\ UNCHANGED <<historyVars, savedVars, clearCalls>>

\* the backend's proxy and page operations (spec 4.3, 4.4): one upstream round
\* trip, bounded by a timeout; one history entry appended whatever the outcome
BackendOutcomes(url) ==
  IF url = "page"
  THEN {Resolved(EnvelopeResponse(200, "first page")),
        Resolved(EnvelopeResponse(200, "no pages")),
        UpstreamFailure}
  ELSE {Resolved(EnvelopeResponse(200, "body")),
        Resolved(EnvelopeResponse(404, "body")),
        UpstreamFailure}

ExecuteServed ==
  /\ execCall.stage = "sent"
  /\ srvHistory' = srvHistory + 1
  /\ \E o \in BackendOutcomes(execCall.url) :
       execCall' = [execCall EXCEPT !.stage = "settled", !.payload = <<>>,
                                    !.outcome = o, !.appends = @ + 1]
  /\ UNCHANGED <<builderVars, response, loading, lastExec, history, histCalls, savedVars, clearVars>>

\* the request does not reach the backend: axios rejects with no response
ExecuteTransportFailed ==
  /\ execCall.stage = "sent"
  /\ execCall' = [execCall EXCEPT !.stage = "settled", !.payload = <<>>,
                               !.outcome = NetworkError]
  /\ UNCHANGED <<builderVars, response, loading, lastExec, historyVars, savedVars, clearVars>>

\* App.js 132-134 and 141-143: the promise resolved
ExecuteResolved ==
  /\ execCall.stage = "settled"
  /\ execCall.outcome.ok
  /\ response' = execCall.outcome.data
  /\ histCalls' = Append(histCalls, [stage |-> "sent", data |-> 0])  \* loadHistory()
  /\ loading' = FinallyLoading
  /\ lastExec' = [outcome |-> "success", posted |-> TRUE, appends |-> execCall.appends,
                  error |-> NoOutcome]
  /\ execCall' = IdleCall
  /\ UNCHANGED <<builderVars, history, srvHistory, savedVars, clearVars>>

\* App.js 135-143: the promise rejected
ExecuteRejected ==
  /\ execCall.stage = "settled"
  /\ ~execCall.outcome.ok
  /\ response' = CaughtResponse(execCall.outcome)
  /\ loading' = FinallyLoading
  /\ lastExec' = [outcome |-> "failure", posted |-> TRUE, appends |-> execCall.appends,
                  error |-> execCall.outcome]
  /\ execCall' = IdleCall
  /\ UNCHANGED <<builderVars, historyVars, savedVars, clearVars>>

(***************************************************************************)
(* loadHistory (App.js 87-94) and the backend's history listing.           *)
(***************************************************************************)
\* the backend answers the listing with the store as it is now (spec 4.6)
LoadHistoryServed ==
  /\ \E i \in 1..Len(histCalls) :
       /\ histCalls[i].stage = "sent"
       /\ histCalls' = [histCalls EXCEPT ![i] = [stage |-> "ok", data |-> srvHistory]]
  /\ UNCHANGED <<builderVars, execVars, history, srvHistory, savedVars, clearVars>>

\* App.js 89-90
LoadHistoryResolved ==
  /\ \E i \in 1..Len(histCalls) :
       /\ histCalls[i].stage = "ok"
       /\ history' = histCalls[i].data
       /\ histCalls' = RemoveAt(histCalls, i)
  /\ UNCHANGED <<builderVars, execVars, srvHistory, savedVars, clearVars>>

\* App.js 91-93: the call failed; console.error only
LoadHistoryRejected ==
  /\ \E i \in 1..Len(histCalls) :
       /\ histCalls[i].stage = "sent"
       /\ histCalls' = RemoveAt(histCalls, i)
  /\ UNCHANGED <<builderVars, execVars, history, srvHistory, savedVars, clearVars>>

(***************************************************************************)
(* loadSavedRequests (App.js 78-85) and the backend's listing.             *)
(***************************************************************************)
\* the backend answers the listing with the store as it is now (spec 4.5)
LoadSavedServed ==
  /\ \E i \in 1..Len(listCalls) :
       /\ listCalls[i].stage = "sent"
       /\ listCalls' = [listCalls EXCEPT ![i] = [stage |-> "ok", data |-> srvSaved]]
  /\ UNCHANGED <<builderVars, execVars, historyVars, clearVars>>
  /\ UNCHANGED <<savedRequests, srvSaved, favCalls, saveCall, toggled>>

\* App.js 80-81
LoadSavedResolved ==
  /\ \E i \in 1..Len(listCalls) :
       /\ listCalls[i].stage = "ok"
       /\ savedRequests' = listCalls[i].data
       /\ listCalls' = RemoveAt(listCalls, i)
  /\ UNCHANGED <<builderVars, execVars, historyVars, clearVars>>
  /\ UNCHANGED <<srvSaved, favCalls, saveCall, toggled>>

\* App.js 82-84: the call failed; console.error only
LoadSavedRejected ==
  /\ \E i \in 1..Len(listCalls) :
       /\ listCalls[i].stage = "sent"
       /\ listCalls' = RemoveAt(listCalls, i)
  /\ UNCHANGED <<builderVars, execVars, historyVars, clearVars>>
  /\ UNCHANGED <<savedRequests, srvSaved, favCalls, saveCall, toggled>>

(***************************************************************************)
(* The request builder and the execution of requests.                      *)
(***************************************************************************)
Next ==
  \/ setMethod
  \/ setEndpoint
  \/ setHeaders
  \/ setBody
  \/ loadExample
  \/ loadRequest
  \/ executeRequest
  \/ ExecuteServed
  \/ ExecuteTransportFailed
  \/ ExecuteResolved
  \/ ExecuteRejected

Spec == Init /\ [][Next]_vars

\* The backend answers every request it is sent within its bounded upstream
\* timeout or the transport reports the failure (spec 5), and the event loop runs
\* the continuation of a settled promise.
FairSpec ==
  /\ Spec
  /\ WF_vars(ExecuteServed \/ ExecuteTransportFailed)
  /\ WF_vars(ExecuteResolved)
  /\ WF_vars(ExecuteRejected)


(***************************************************************************)
(* toggleFavorite (App.js 200-207) and the backend's update operation.     *)
(***************************************************************************)
\* the handler up to its await; id and isFavorite come from the rendered copy of
\* the list, App.js 295
toggleFavorite ==
  /\ Len(favCalls) + Len(listCalls) < MaxInFlight
  /\ \E i \in 1..Len(savedRequests) :
       LET req == savedRequests[i]
       IN /\ toggled[req.id].clicks < MaxToggles
          /\ favCalls' = Append(favCalls, [stage |-> "sent", id |-> req.id,
                                           is_favorite |-> ~req.is_favorite])
          /\ toggled' = [toggled EXCEPT ![req.id].clicks = @ + 1]
  /\ UNCHANGED <<builderVars, execVars, historyVars, clearVars>>
  /\ UNCHANGED <<savedRequests, srvSaved, listCalls, saveCall>>

\* the backend's patchFavorite (spec 4.5): the record takes the value sent
ToggleServed ==
  /\ \E i \in 1..Len(favCalls) :
       LET c == favCalls[i]
       IN /\ c.stage = "sent"
          /\ srvSaved' = [k \in 1..Len(srvSaved) |->
                            IF srvSaved[k].id = c.id
                            THEN [srvSaved[k] EXCEPT !.is_favorite = c.is_favorite]
                            ELSE srvSaved[k]]
          /\ favCalls' = [favCalls EXCEPT ![i].stage = "ok"]
          /\ toggled' = [toggled EXCEPT ![c.id].applied = @ + 1]
  /\ UNCHANGED <<builderVars, execVars, historyVars, clearVars>>
  /\ UNCHANGED <<savedRequests, listCalls, saveCall>>

\* App.js 203: the update resolved; loadSavedRequests() is issued
ToggleResolved ==
  /\ \E i \in 1..Len(favCalls) :
       /\ favCalls[i].stage = "ok"
       /\ favCalls' = RemoveAt(favCalls, i)
  /\ listCalls' = Append(listCalls, [stage |-> "sent", data |-> <<>>])
  /\ UNCHANGED <<builderVars, execVars, historyVars, clearVars>>
  /\ UNCHANGED <<savedRequests, srvSaved, saveCall, toggled>>

\* App.js 204-206: the update failed; a toast only
ToggleRejected ==
  /\ \E i \in 1..Len(favCalls) :
       /\ favCalls[i].stage = "sent"
       /\ favCalls' = RemoveAt(favCalls, i)
  /\ UNCHANGED <<builderVars, execVars, historyVars, clearVars>>
  /\ UNCHANGED <<savedRequests, srvSaved, listCalls, saveCall, toggled>>

(***************************************************************************)
(* The saved-request panel from the moment the page is opened.             *)
(***************************************************************************)
SavedNext ==
  \/ toggleFavorite
  \/ ToggleServed
  \/ ToggleResolved
  \/ ToggleRejected
  \/ LoadSavedServed
  \/ LoadSavedResolved
  \/ LoadSavedRejected
  \/ LoadHistoryServed
  \/ LoadHistoryResolved
  \/ LoadHistoryRejected

SavedSpec == MountInit /\ [][SavedNext]_vars

(***************************************************************************)
(* saveRequest (App.js 162-180) and the backend's create operation.        *)
(***************************************************************************)
\* what the user may answer to prompt(), App.js 163
PromptAnswers == {"", "my request"}

\* the handler up to its await; selectedCategory is 'Files' (App.js 61)
saveRequest ==
  /\ saveCall.stage = "idle"
  /\ Len(srvSaved) < MaxSaved
  /\ Len(listCalls) < MaxInFlight
  /\ \E name \in PromptAnswers :
       IF name = ""
       THEN UNCHANGED saveCall
       ELSE saveCall' = [stage |-> "sent",
                         payload |-> <<[name |-> name, method |-> method,
                                        endpoint |-> endpoint,
                                        headers |-> parseHeaders(headers),
                                        body |-> body, category |-> "Files"]>>]
  /\ UNCHANGED <<builderVars, execVars, historyVars, clearVars>>
  /\ UNCHANGED <<savedRequests, srvSaved, listCalls, favCalls, toggled>>

\* the backend's create (spec 4.5): a record with a fresh id, not a favorite
SaveRequestServed ==
  /\ saveCall.stage = "sent"
  /\ LET p == saveCall.payload[1]
     IN srvSaved' = Append(srvSaved,
                      [id |-> Len(srvSaved) + 1, name |-> p.name, method |-> p.method,
                       endpoint |-> p.endpoint, headers |-> p.headers,
                       body |-> p.body, is_favorite |-> FALSE])
  /\ saveCall' = [stage |-> "ok", payload |-> <<>>]
  /\ UNCHANGED <<builderVars, execVars, historyVars, clearVars>>
  /\ UNCHANGED <<savedRequests, listCalls, favCalls, toggled>>

\* App.js 175-176: the post resolved; loadSavedRequests() is issued
SaveRequestResolved ==
  /\ saveCall.stage = "ok"
  /\ saveCall' = [stage |-> "idle", payload |-> <<>>]
  /\ listCalls' = Append(listCalls, [stage |-> "sent", data |-> <<>>])
  /\ UNCHANGED <<builderVars, execVars, historyVars, clearVars>>
  /\ UNCHANGED <<savedRequests, srvSaved, favCalls, toggled>>

\* App.js 177-179: the post failed; a toast only
SaveRequestRejected ==
  /\ saveCall.stage = "sent"
  /\ saveCall' = [stage |-> "idle", payload |-> <<>>]
  /\ UNCHANGED <<builderVars, execVars, historyVars, clearVars>>
  /\ UNCHANGED <<savedRequests, srvSaved, listCalls, favCalls, toggled>>

(***************************************************************************)
(* parseHeaders over header texts: saveRequest applies it to a text drawn  *)
(* from HeaderTexts.                                                       *)
(***************************************************************************)
SmallChars == {"a", ":", " ", "1", "\"", "\n"}

TextsUpTo(k) == UNION {[1..len -> SmallChars] : len \in 0..k}

HeaderTexts ==
  TextsUpTo(MaxHdrLen) \cup
  {H_Example, H_ColonValue, H_BlankKey, H_BlankValue, H_JsonObject, H_JsonToken,
   H_LineToken, H_JsonNumber, H_JsonString, H_JsonNull, H_JsonArray, H_JsonNested}

HdrInit ==
  /\ figmaToken = S_Tok
  /\ showTokenDialog = FALSE
  /\ method = "GET"
  /\ endpoint = E_File
  /\ headers \in HeaderTexts          \* typed into the headers textarea, App.js 366
  /\ body = <<>>
  /\ response = NullResponse
  /\ loading = FALSE
  /\ savedRequests = SeedSaved
  /\ history = 0
  /\ srvSaved = SeedSaved
  /\ srvHistory = 0
  /\ execCall = IdleCall
  /\ histCalls = <<>>
  /\ listCalls = <<>>
  /\ favCalls = <<>>
  /\ saveCall = [stage |-> "idle", payload |-> <<>>]
  /\ lastExec = NoExec
  /\ toggled = [id \in SavedIds |-> [clicks |-> 0, applied |-> 0]]
  /\ clearCalls = <<>>
  /\ cleared = FALSE

HdrNext ==
  \/ saveRequest
  \/ SaveRequestServed
  \/ SaveRequestResolved
  \/ SaveRequestRejected
  \/ LoadSavedServed
  \/ LoadSavedResolved
  \/ LoadSavedRejected

HdrSpec == HdrInit /\ [][HdrNext]_vars

(***************************************************************************)
(* clearHistory (App.js 209-217) and the backend's history clear.          *)
(***************************************************************************)
\* App.js 211: the delete is issued; the button (App.js 431) is never disabled
clearHistory ==
  /\ Len(clearCalls) < MaxInFlight
  /\ clearCalls' = Append(clearCalls, [stage |-> "sent"])
  /\ UNCHANGED <<builderVars, execVars, historyVars, savedVars, cleared>>

\* the backend empties the store in one operation (spec 4.6: clear() -> Ok)
ClearHistoryServed ==
  /\ \E i \in 1..Len(clearCalls) :
       /\ clearCalls[i].stage = "sent"
       /\ clearCalls' = [clearCalls EXCEPT ![i] = [stage |-> "ok"]]
  /\ srvHistory' = 0
  /\ UNCHANGED <<builderVars, execVars, history, histCalls, savedVars, cleared>>

\* App.js 212-213: the delete resolved; setHistory([])
ClearHistoryResolved ==
  /\ \E i \in 1..Len(clearCalls) :
       /\ clearCalls[i].stage = "ok"
       /\ clearCalls' = RemoveAt(clearCalls, i)
  /\ history' = 0
  /\ cleared' = TRUE
  /\ UNCHANGED <<builderVars, execVars, srvHistory, histCalls, savedVars>>

\* App.js 214-216: the delete failed before it was served; a toast only
ClearHistoryRejected ==
  /\ \E i \in 1..Len(clearCalls) :
       /\ clearCalls[i].stage = "sent"
       /\ clearCalls' = RemoveAt(clearCalls, i)
  /\ UNCHANGED <<builderVars, execVars, historyVars, savedVars, cleared>>

\* the history tab: a configured token and a valid endpoint, any method
HistInit ==
  /\ figmaToken = S_Tok
  /\ showTokenDialog = FALSE
  /\ method \in Methods                \* the method select, App.js 320-329
  /\ endpoint = E_File
  /\ headers = <<>>
  /\ body = <<>>
  /\ response = NullResponse
  /\ loading = FALSE
  /\ savedRequests = SeedSaved
  /\ history = 0
  /\ srvSaved = SeedSaved
  /\ srvHistory = 0
  /\ execCall = IdleCall
  /\ histCalls = <<>>
  /\ listCalls = <<>>
  /\ favCalls = <<>>
  /\ saveCall = [stage |-> "idle", payload |-> <<>>]
  /\ lastExec = NoExec
  /\ toggled = [id \in SavedIds |-> [clicks |-> 0, applied |-> 0]]
  /\ clearCalls = <<>>
  /\ cleared = FALSE

HistNext ==
  \/ executeRequest
  \/ ExecuteServed
  \/ ExecuteTransportFailed
  \/ ExecuteResolved
  \/ ExecuteRejected
  \/ LoadHistoryServed
  \/ LoadHistoryResolved
  \/ LoadHistoryRejected
  \/ clearHistory
  \/ ClearHistoryServed
  \/ ClearHistoryResolved
  \/ ClearHistoryRejected

HistSpec == HistInit /\ [][HistNext]_vars


(***************************************************************************)
(* Properties.                                                             *)
(***************************************************************************)
\* a step in which executeRequest posts its request
PostsRequest == execCall.stage = "idle" /\ execCall'.stage = "sent"

InvalidRequest ==
  \/ figmaToken = <<>>
  \/ endpoint = <<>>
  \/ \E i \in 1..Len(endpoint) : endpoint[i] = ":"

\* C1: an executeRequest invoked with an empty token, an empty endpoint or an
\* endpoint containing ':' issues no call and leaves response and loading as they
\* are; with a token and an endpoint without ':' the execution proceeds: the
\* request is posted, or the body fails to parse and the failure is reported.
C1_ValidationTerminal ==
  [][executeRequest =>
       IF InvalidRequest
       THEN UNCHANGED <<execCall, histCalls, listCalls, favCalls, saveCall,
                        response, loading>>
       ELSE \/ execCall'.stage = "sent" /\ loading'
            \/ response'.kind = "error"]_vars

\* executeRequest ran without a token: the dialog is open and nothing else moved
C1_Witness ==
  /\ figmaToken = <<>>
  /\ showTokenDialog
  /\ endpoint = E_NodesIds
  /\ execCall = IdleCall
  /\ response = NullResponse
  /\ ~loading

\* C2: in every request executeRequest sends, the X-Figma-Token header is the
\* configured token, whatever the header text defines.
C2_AuthHeaderWins ==
  execCall.stage = "sent" =>
    LET h == execCall.payload[1].headers.m
    IN HasKey(h, S_XFigmaToken) /\ Get(h, S_XFigmaToken) = JStr(figmaToken)

\* C3: a request sent with PAGE selected goes to the page operation with method
\* GET and the same endpoint; with GET, POST, PUT or DELETE selected it goes to
\* the proxy operation with that method and endpoint.
C3_PageNeverPassedThrough ==
  [][PostsRequest =>
       LET p == execCall'.payload[1]
       IN IF method = "PAGE"
          THEN execCall'.url = "page" /\ p.method = "GET" /\ p.endpoint = endpoint
          ELSE execCall'.url = "proxy" /\ p.method = method /\ p.endpoint = endpoint]_vars

C3_Witness ==
  /\ execCall.stage = "sent"
  /\ execCall.url = "page"
  /\ execCall.payload[1].method = "GET"
  /\ execCall.payload[1].endpoint = E_File

\* C4: every execution that passed validation and was not lost on its way to the
\* backend, a malformed body included, has exactly one history entry appended.
C4_OneAppendPerExecution ==
  (lastExec.outcome # "none" /\ lastExec.error # NetworkError) => lastExec.appends = 1

\* C5: an execution that passed validation and failed ends with response =
\* {error: true, message}, message being the detail of the error reply when there
\* is one and the message of the error otherwise; a malformed body posts nothing.
C5_StructuredFailure ==
  lastExec.outcome = "failure" =>
    /\ response.kind = "error"
    /\ response.message = (IF lastExec.error.detail # ""
                           THEN lastExec.error.detail
                           ELSE lastExec.error.message)
    /\ response.message # ""
    /\ (lastExec.error = SyntaxError => ~lastExec.posted /\ lastExec.appends = 0)

C5_Witness ==
  /\ lastExec.outcome = "failure"
  /\ lastExec.error = UpstreamFailure
  /\ response = ErrorResponse("upstream unreachable")

C9_BodyAbsentForNonMutating ==
  [][PostsRequest =>
       LET p == execCall'.payload[1]
       IN /\ method \in {"GET", "DELETE", "PAGE"} => p.body = JNull
          /\ (method \in {"POST", "PUT"} /\ body = <<>>) => p.body = JNull]_vars

\* the line-based fallback as the specification words it: the key is the text
\* before the first ':', the value all the text after it
FirstColon(line) ==
  IF includes(line, ":")
  THEN CHOOSE i \in 1..Len(line) : line[i] = ":" /\ \A j \in 1..(i - 1) : line[j] # ":"
  ELSE 0

StatedLine(acc, line) ==
  LET c == FirstColon(line)
      k == trim(SubSeq(line, 1, c - 1))
      v == trim(SubSeq(line, c + 1, Len(line)))
  IN IF c # 0 /\ k # <<>> /\ v # <<>> THEN Put(acc, k, JStr(v)) ELSE acc

RECURSIVE StatedLines(_, _)
StatedLines(acc, lines) ==
  IF lines = <<>> THEN acc
  ELSE StatedLines(StatedLine(acc, Head(lines)), Tail(lines))

SameMapping(a, b) ==
  /\ Keys(a) = Keys(b)
  /\ \A k \in Keys(a) : Get(a, k) = Get(b, k)

\* C7: for a header text that is not valid JSON the resolver returns exactly the
\* pairs (trimmed key, trimmed value) of the lines split at their first ':' whose
\* key and value are both non-empty after trimming.
C7_LineFallback ==
  (saveCall.stage = "sent" /\ ~JSONparse(headers).ok) =>
    LET r == saveCall.payload[1].headers
    IN r.t = "obj" /\ SameMapping(r.m, StatedLines(<<>>, split(headers, "\n")))

\* C8: the resolver returns a mapping for every header text: the empty mapping
\* for the empty text, the object's pairs for a JSON object, and never a number,
\* a string, an array or null.
C8_AlwaysMapping ==
  saveCall.stage = "sent" =>
    LET r == saveCall.payload[1].headers
    IN /\ r.t = "obj"
       /\ headers = <<>> => r.m = <<>>

Favorite(list, id) ==
  list[CHOOSE k \in 1..Len(list) : list[k].id = id].is_favorite

\* C10: once two toggleFavorite invocations on a saved request have both been
\* applied and their reloads have arrived, the stored is_favorite is the value it
\* had before the first.
C10_ToggleTwiceRestores ==
  \A id \in SavedIds :
    (/\ toggled[id].clicks = 2
     /\ toggled[id].applied = 2
     /\ favCalls = <<>>
     /\ listCalls = <<>>)
    => Favorite(srvSaved, id) = Favorite(SeedSaved, id)

\* C11: once a clearHistory has completed successfully and executeRequest has
\* posted nothing since, the client's history list is empty whenever the store
\* is empty, also after the reply to an earlier loadHistory arrives.
C11_ClearedStaysEmpty ==
  (cleared /\ srvHistory = 0) => history = 0

=============================================================================
